---- MODULE Spec2Model ----
(***************************************************************************)
(* A model of src/mousehunt/lib.py: the two-pointer merge, the memoized    *)
(* get_start_time and the completion-time estimator get_end_time.          *)
(*                                                                         *)
(* A datetime is a record [sec, us, tz]: sec is the wall-clock time in     *)
(* whole seconds counted from midnight of a reference day, us the          *)
(* microsecond field (0 .. 999999) and tz the utcoffset of its tzinfo in   *)
(* seconds.  A timedelta is a normalised record [sec, us] with             *)
(* 0 <= us < 1000000, as Python keeps it.                                  *)
(***************************************************************************)
EXTENDS Integers, Sequences, FiniteSets, Bags

VARIABLES
    cache,   \* the functools.cache of get_start_time: a set of [t, off, value]
    pc,      \* "idle": no call in progress; "done": a call has just returned
    call,    \* the function called last and its arguments
    locals,  \* the local variables of that call when it ended
    ret      \* what the call produced: a value or a raised exception

vars == <<cache, pc, call, locals, ret>>

(***************************************************************************)
(* Bounds of the model and constants of the program.                       *)
(***************************************************************************)
MaxLen == 3
MaxN == 3
Hour == 3600
Low == 920
High == 1140
UsPerSec == 1000000

(***************************************************************************)
(* datetime and timedelta arithmetic, as the standard library does it.     *)
(***************************************************************************)
Dt(s, u, z) == [sec |-> s, us |-> u, tz |-> z]
Td(s, u) == [sec |-> s, us |-> u]

\* datetime + timedelta: microseconds carry into seconds, tzinfo is kept
DtAdd(t, d) ==
    LET u == t.us + d.us
    IN  [t EXCEPT !.sec = t.sec + d.sec + (u \div UsPerSec),
                  !.us = u % UsPerSec]

\* the instant of a datetime in whole UTC seconds (wall clock minus utcoffset)
Utc(t) == t.sec - t.tz

\* datetime.__lt__: instants are compared, whatever the tzinfo
Lt(a, b) == \/ Utc(a) < Utc(b)
            \/ Utc(a) = Utc(b) /\ a.us < b.us

\* datetime.__eq__ (and __hash__): equal instants are equal keys
DtEq(a, b) == Utc(a) = Utc(b) /\ a.us = b.us

\* timedelta.__eq__
TdEq(a, b) == a.sec = b.sec /\ a.us = b.us

(***************************************************************************)
(* merge(xs, ys), lines 21-33.                                             *)
(***************************************************************************)
RECURSIVE merge_loop_ties_xs(_, _, _, _, _)
\* the loop with the comparison turned into ys[j] < xs[i]: ties take xs first
merge_loop_ties_xs(xs, ys, i, j, res) ==
    IF i <= Len(xs) /\ j <= Len(ys)
    THEN IF ~Lt(ys[j], xs[i])
         THEN merge_loop_ties_xs(xs, ys, i + 1, j, Append(res, xs[i]))
         ELSE merge_loop_ties_xs(xs, ys, i, j + 1, Append(res, ys[j]))
    ELSE res \o SubSeq(xs, i, Len(xs)) \o SubSeq(ys, j, Len(ys))

RECURSIVE merge_loop(_, _, _, _, _)
\* the while loop of lines 24-30 followed by the two extends of lines 31-32;
\* i and j are the 1-based positions of the code's 0-based i and j
merge_loop(xs, ys, i, j, res) ==
    IF i <= Len(xs) /\ j <= Len(ys)
    THEN IF Lt(xs[i], ys[j])
         THEN merge_loop(xs, ys, i + 1, j, Append(res, xs[i]))
         ELSE merge_loop(xs, ys, i, j + 1, Append(res, ys[j]))
    ELSE res \o SubSeq(xs, i, Len(xs)) \o SubSeq(ys, j, Len(ys))

\* merge without line 32: the rest of ys is dropped
merge_drops_ys(xs, ys) ==
    LET RECURSIVE loop(_, _, _)
        loop(i, j, res) ==
            IF i <= Len(xs) /\ j <= Len(ys)
            THEN IF Lt(xs[i], ys[j])
                 THEN loop(i + 1, j, Append(res, xs[i]))
                 ELSE loop(i, j + 1, Append(res, ys[j]))
            ELSE res \o SubSeq(xs, i, Len(xs))
    IN  loop(1, 1, <<>>)

merge(xs, ys) == merge_loop(xs, ys, 1, 1, <<>>)

(***************************************************************************)
(* get_start_time(curr_time, offset), lines 36-43.                         *)
(***************************************************************************)
Value(v) == [kind |-> "value", value |-> v]
Raise(e) == [kind |-> "raise", error |-> e]

\* curr_time.replace(minute=0, second=0), line 38: the minute and second
\* fields are zeroed; the microsecond field and the tzinfo are kept
replace_minute_second(t) == [t EXCEPT !.sec = t.sec - (t.sec % Hour)]

\* the body with the loop of line 40 running over hour_time alone
get_start_time_body_one_candidate(curr_time, offset) ==
    LET hour_time == DtAdd(replace_minute_second(curr_time), offset)
    IN  IF Lt(curr_time, hour_time)
        THEN Value(hour_time)
        ELSE Raise("ValueError")

\* the undecorated function, lines 38-43
get_start_time_body(curr_time, offset) ==
    LET hour_time == DtAdd(replace_minute_second(curr_time), offset)
        nxt_time == DtAdd(hour_time, Td(Hour, 0))
    IN  IF Lt(curr_time, hour_time)
        THEN Value(hour_time)
        ELSE IF Lt(curr_time, nxt_time)
             THEN Value(nxt_time)
             ELSE Raise("ValueError")

\* the entries of the cache c whose key equals (curr_time, offset): a dict
\* finds a key by __hash__ and __eq__
cache_hits(c, curr_time, offset) ==
    {e \in c : DtEq(e.t, curr_time) /\ TdEq(e.off, offset)}

\* @cache, line 36: a hit returns the stored value; a miss runs the body
\* and stores what it returns; a raised exception is not stored.
\* The result is the pair of what the call produces and the cache after it.
get_start_time(c, curr_time, offset) ==
    LET hits == cache_hits(c, curr_time, offset)
        r == get_start_time_body(curr_time, offset)
    IN  IF hits # {}
        THEN [ret |-> Value((CHOOSE e \in hits : TRUE).value), cache |-> c]
        ELSE [ret |-> r,
              cache |-> IF r.kind = "value"
                        THEN c \cup {[t |-> curr_time, off |-> offset,
                                      value |-> r.value]}
                        ELSE c]

(***************************************************************************)
(* get_end_time(n, curr_time, curr_delay, offset), lines 46-64.            *)
(***************************************************************************)
\* arr.cumsum() without the accumulation: the samples themselves
cumsum_not_accumulated(arr) == arr

\* arr.cumsum(), line 51: the running sums of arr
cumsum(arr) ==
    LET RECURSIVE sum(_)
        sum(k) == IF k = 0 THEN 0 ELSE sum(k - 1) + arr[k]
    IN  [k \in 1 .. Len(arr) |-> sum(k)]

\* all_times, lines 52-55: curr_time + curr_delay, then that time plus each
\* running sum
hunt_times(curr_time, curr_delay, arr) ==
    LET arr2 == cumsum(arr)
    IN  <<DtAdd(curr_time, curr_delay)>> \o
        [k \in 1 .. Len(arr2) |->
            DtAdd(DtAdd(curr_time, curr_delay), Td(arr2[k], 0))]

RECURSIVE hourly_loop_from_next_hour(_, _, _)
\* the loop appending the time one hour after nxt_time instead of nxt_time
hourly_loop_from_next_hour(nxt_time, final_time, hourly_times) ==
    IF Lt(nxt_time, final_time)
    THEN hourly_loop_from_next_hour(DtAdd(nxt_time, Td(Hour, 0)), final_time,
                     Append(hourly_times, DtAdd(nxt_time, Td(Hour, 0))))
    ELSE hourly_times

RECURSIVE hourly_loop(_, _, _)
\* the while loop of lines 60-62
hourly_loop(nxt_time, final_time, hourly_times) ==
    IF Lt(nxt_time, final_time)
    THEN hourly_loop(DtAdd(nxt_time, Td(Hour, 0)), final_time,
                     Append(hourly_times, nxt_time))
    ELSE hourly_times

\* the index of line 64
result_index(n) == n - 1

\* s[i] of a Python list: a negative index counts from the end
py_index(s, i) ==
    IF 0 <= i /\ i < Len(s) THEN Value(s[i + 1])
    ELSE IF i < 0 /\ -i <= Len(s) THEN Value(s[Len(s) + i + 1])
    ELSE Raise("IndexError")

\* the values np.random.randint(low=920, high=1140) is drawn from here: the
\* two ends of the range and 1000
randint_values == {Low, 1000, High - 1}

\* the arrays np.random.randint(low, high, size=n) can return, line 49
randint(n) == [1 .. n -> randint_values]

\* The body after line 49 has drawn arr.  The result is what the call
\* produces, its local variables and the cache after it.
get_end_time(c, n, curr_time, curr_delay, offset, arr) ==
    LET all_times == hunt_times(curr_time, curr_delay, arr)
        final_time == all_times[Len(all_times)]
        start == get_start_time(c, curr_time, offset)
        hourly_times == IF start.ret.kind = "value"
                        THEN hourly_loop(start.ret.value, final_time, <<>>)
                        ELSE <<>>
        all_all_times == merge(all_times, hourly_times)
    IN  [ret |-> IF start.ret.kind = "value"
                 THEN py_index(all_all_times, result_index(n))
                 ELSE start.ret,
         locals |-> [arr |-> arr, all_times |-> all_times,
                     final_time |-> final_time, start |-> start.ret,
                     hourly_times |-> hourly_times,
                     all_all_times |-> IF start.ret.kind = "value"
                                       THEN all_all_times ELSE <<>>],
         cache |-> start.cache]

(***************************************************************************)
(* The calls.                                                              *)
(***************************************************************************)
NoCall == [op |-> "none"]
NoLocals == [none |-> TRUE]
NoRet == [kind |-> "none"]
Init ==
    /\ cache = {}
    /\ pc = "idle"
    /\ call = NoCall
    /\ locals = NoLocals
    /\ ret = NoRet

\* the caller takes the result and the frame of the call is gone
Return ==
    /\ pc = "done"
    /\ pc' = "idle"
    /\ call' = NoCall
    /\ locals' = NoLocals
    /\ ret' = NoRet
    /\ UNCHANGED cache

\* The elements given to merge: 10:00:00, 10:00:00.5 and 10:30:00 UTC, and
\* 16:00:00 at +05:30, which is the instant 10:30:00 UTC again.
MergeKeys ==
    {Dt(36000, 0, 0), Dt(36000, 500000, 0), Dt(37800, 0, 0), Dt(57600, 0, 19800)}

SeqsUpTo(S, k) == UNION {[1 .. m -> S] : m \in 0 .. k}

\* Python objects have an identity besides their value: the id field tells
\* the objects of the two argument lists apart and is not read by Lt.
Tagged(s, name) ==
    [k \in 1 .. Len(s) |-> [sec |-> s[k].sec, us |-> s[k].us, tz |-> s[k].tz,
                            id |-> <<name, k>>]]

CallMerge ==
    /\ pc = "idle"
    /\ \E a, b \in SeqsUpTo(MergeKeys, MaxLen) :
         LET xs == Tagged(a, "xs")
             ys == Tagged(b, "ys")
         IN  /\ call' = [op |-> "merge", xs |-> xs, ys |-> ys]
             /\ locals' = NoLocals
             /\ ret' = Value(merge(xs, ys))
    /\ pc' = "done"
    /\ UNCHANGED cache

NextMerge == CallMerge \/ Return

SpecMerge == Init /\ [][NextMerge]_vars

(***************************************************************************)
(* Claims about merge.                                                     *)
(***************************************************************************)
Ascending(s) == \A k \in 1 .. Len(s) - 1 : ~Lt(s[k + 1], s[k])

BagOfSeq(s) ==
    LET RECURSIVE build(_)
        build(k) == IF k = 0 THEN EmptyBag ELSE build(k - 1) (+) SetToBag({s[k]})
    IN  build(Len(s))

\* the value of an element without its identity
Plain(e) == Dt(e.sec, e.us, e.tz)
PlainSeq(s) == [k \in 1 .. Len(s) |-> Plain(s[k])]

MergeDone == pc = "done" /\ call.op = "merge"

\* C1: for ascending xs and ys, merge(xs, ys) is ascending, has length
\* len(xs) + len(ys) and holds exactly the elements of xs and ys with their
\* multiplicities, also when an input is empty.
C1_MergeCorrect ==
    (MergeDone /\ Ascending(call.xs) /\ Ascending(call.ys)) =>
        /\ Ascending(ret.value)
        /\ Len(ret.value) = Len(call.xs) + Len(call.ys)
        /\ BagOfSeq(PlainSeq(ret.value))
             = BagOfSeq(PlainSeq(call.xs)) (+) BagOfSeq(PlainSeq(call.ys))
        /\ BagOfSeq(ret.value) = BagOfSeq(call.xs) (+) BagOfSeq(call.ys)

\* C1's case: two non-empty ascending inputs with a repeated value, the rest
\* of ys left over when xs runs out
C1_Witness ==
    /\ MergeDone /\ Ascending(call.xs) /\ Ascending(call.ys)
    /\ Len(call.xs) = 2 /\ Len(call.ys) = 3
    /\ Plain(call.xs[1]) = Plain(call.ys[1])
    /\ Lt(call.xs[2], call.ys[3])
    /\ Len(ret.value) = 5

\* C9: on a tie the element of ys is emitted first: in the output every ys
\* element precedes every xs element equal to it, and the elements of one
\* input keep their order.
C9_TiesTakeYsFirst ==
    (MergeDone /\ Ascending(call.xs) /\ Ascending(call.ys)) =>
        LET res == ret.value
        IN  /\ \A p, q \in 1 .. Len(res) :
                 (/\ res[p].id[1] = "xs" /\ res[q].id[1] = "ys"
                  /\ ~Lt(res[p], res[q]) /\ ~Lt(res[q], res[p])) => q < p
            /\ \A p, q \in 1 .. Len(res) :
                 (res[p].id[1] = res[q].id[1] /\ res[p].id[2] < res[q].id[2])
                     => p < q

\* C9's case: both inputs hold the same value, and the output starts with
\* the ys object
C9_Witness ==
    /\ MergeDone /\ Ascending(call.xs) /\ Ascending(call.ys)
    /\ Len(call.xs) >= 1 /\ Len(call.ys) >= 1
    /\ \E i \in 1 .. Len(call.xs), j \in 1 .. Len(call.ys) :
         Plain(call.xs[i]) = Plain(call.ys[j])
    /\ ret.value[1].id[1] = "ys"
    /\ Plain(call.xs[1]) = Plain(call.ys[1])

(***************************************************************************)
(* Calls of get_start_time.                                                *)
(***************************************************************************)
\* 10:30:00 UTC, the same instant as 16:00:00 at +05:30, 10:00:00.5 UTC and
\* 08:00:00 UTC
StartTimes ==
    {Dt(37800, 0, 0), Dt(57600, 0, 19800), Dt(36000, 500000, 0), Dt(28800, 0, 0)}

\* no offset, 15 minutes, 90 minutes, minus 30 minutes and minus two hours
StartOffsets == {Td(0, 0), Td(900, 0), Td(5400, 0), Td(-1800, 0), Td(-7200, 0)}

CallGetStartTime ==
    /\ pc = "idle"
    /\ \E curr_time \in StartTimes, offset \in StartOffsets :
         LET r == get_start_time(cache, curr_time, offset)
         IN  /\ call' = [op |-> "get_start_time", curr_time |-> curr_time,
                         offset |-> offset]
             /\ locals' = NoLocals
             /\ ret' = r.ret
             /\ cache' = r.cache
    /\ pc' = "done"

NextStart == CallGetStartTime \/ Return

SpecStart == Init /\ [][NextStart]_vars

(***************************************************************************)
(* Claims about get_start_time.                                            *)
(***************************************************************************)
StartDone == pc = "done" /\ call.op = "get_start_time"

\* 0 <= offset < 1 hour
SubHour(offset) == 0 <= offset.sec /\ offset.sec < Hour

\* the hour boundary number k of the day, in the time zone of t, plus offset
Aligned(k, offset, t) == DtAdd(Dt(k * Hour, 0, t.tz), offset)

HoursAround(t) == ((t.sec \div Hour) - 2) .. ((t.sec \div Hour) + 3)

\* C3: for 0 <= offset < 1 hour the returned time is strictly greater than
\* current_time and no hour boundary plus offset lies strictly between the
\* two; 10:30:00 with an offset of 15 minutes gives 11:15:00.
C3_NextAlignedTime ==
    (StartDone /\ SubHour(call.offset)) =>
        /\ ret.kind = "value"
        /\ Lt(call.curr_time, ret.value)
        /\ \A k \in HoursAround(call.curr_time) :
             ~(/\ Lt(call.curr_time, Aligned(k, call.offset, call.curr_time))
               /\ Lt(Aligned(k, call.offset, call.curr_time), ret.value))
        /\ (call.curr_time = Dt(37800, 0, 0) /\ call.offset = Td(900, 0))
              => DtEq(ret.value, Dt(40500, 0, 0))

\* the exact hour boundary at or before t: minutes, seconds and the
\* sub-second part zeroed
HourBoundary(t) == Dt(t.sec - (t.sec % Hour), 0, t.tz)

\* C4: the returned value is H + offset or H + offset + 1 hour, H being the
\* exact hour boundary at or before current_time, also for a current_time
\* with a sub-second part.
C4_TruncatesToHour ==
    (StartDone /\ ret.kind = "value") =>
        \/ DtEq(ret.value, DtAdd(HourBoundary(call.curr_time), call.offset))
        \/ DtEq(ret.value, DtAdd(DtAdd(HourBoundary(call.curr_time), call.offset),
                                 Td(Hour, 0)))

SameOutcome(a, b) ==
    /\ a.kind = b.kind
    /\ a.kind = "value" => DtEq(a.value, b.value)

\* C8: the cache has no observable effect: every call returns the value the
\* undecorated function gives for its own arguments.
C8_CacheUnobservable ==
    StartDone => SameOutcome(ret, get_start_time_body(call.curr_time, call.offset))

\* the other half of C8: an entry of the cache, once inserted, stays as it is
C8_EntriesKept == [][cache \subseteq cache']_vars

\* C10 as stated: whatever the offset, a candidate exceeds current_time and
\* the call returns a value.
C10_NeverRaises ==
    StartDone => (ret.kind = "value" /\ Lt(call.curr_time, ret.value))

\* C10 amended: for every offset >= 0 one of the two candidates exceeds
\* current_time, so the ValueError of line 43 is not raised and the call
\* returns a time after current_time.
C10_NeverRaisesNonNegative ==
    (StartDone /\ call.offset.sec >= 0) =>
        (ret.kind = "value" /\ Lt(call.curr_time, ret.value))

\* C10's case: hour_time is not after current_time, the second candidate is
\* what the call returns
C10_Witness ==
    /\ StartDone
    /\ call.curr_time = Dt(37800, 0, 0) /\ call.offset = Td(900, 0)
    /\ ret = Value(Dt(40500, 0, 0))

(***************************************************************************)
(* Calls of get_end_time.                                                  *)
(***************************************************************************)
\* 08:00:00 UTC, the same instant as 13:30:00 at +05:30, and 08:00:00.5 UTC
EndTimes == {Dt(28800, 0, 0), Dt(48600, 0, 19800), Dt(28800, 500000, 0)}

\* 10 minutes and 50 minutes
EndDelays == {Td(600, 0), Td(3000, 0)}

\* no offset, 15 minutes and minus two hours
EndOffsets == {Td(0, 0), Td(900, 0), Td(-7200, 0)}

\* a call with n >= 0: line 49 draws arr and the body runs
CallGetEndTime ==
    /\ pc = "idle"
    /\ \E n \in 0 .. MaxN, curr_time \in EndTimes, curr_delay \in EndDelays,
          offset \in EndOffsets :
         \E arr \in randint(n) :
           LET r == get_end_time(cache, n, curr_time, curr_delay, offset, arr)
           IN  /\ call' = [op |-> "get_end_time", n |-> n,
                           curr_time |-> curr_time, curr_delay |-> curr_delay,
                           offset |-> offset]
               /\ locals' = r.locals
               /\ ret' = r.ret
               /\ cache' = r.cache
    /\ pc' = "done"

\* a call with n < 0: np.random.randint refuses a negative size at line 49
CallGetEndTimeNegative ==
    /\ pc = "idle"
    /\ \E curr_time \in EndTimes, curr_delay \in EndDelays,
          offset \in EndOffsets :
         call' = [op |-> "get_end_time", n |-> -1, curr_time |-> curr_time,
                  curr_delay |-> curr_delay, offset |-> offset]
    /\ locals' = NoLocals
    /\ ret' = Raise("ValueError")
    /\ pc' = "done"
    /\ UNCHANGED cache

NextEnd == CallGetEndTime \/ CallGetEndTimeNegative \/ Return

SpecEnd == Init /\ [][NextEnd]_vars

Next == CallMerge \/ CallGetStartTime \/ CallGetEndTime
           \/ CallGetEndTimeNegative \/ Return

Spec == Init /\ [][Next]_vars

(***************************************************************************)
(* Claims about get_end_time.                                              *)
(***************************************************************************)
EndDone == pc = "done" /\ call.op = "get_end_time"

\* the sum of the first k per-step delays
SumFirst(arr, k) ==
    LET RECURSIVE sum(_)
        sum(m) == IF m = 0 THEN 0 ELSE sum(m - 1) + arr[m]
    IN  sum(k)

\* the hunt events of the claims: current_time + current_delay plus the sum
\* of the delays drawn so far
HuntsOf(curr_time, curr_delay, arr) ==
    [k \in 1 .. Len(arr) + 1 |->
        DtAdd(DtAdd(curr_time, curr_delay), Td(SumFirst(arr, k - 1), 0))]

\* no hourly check lies further than this many hours after the first one
HorizonHours == 0 .. (MaxN + 2)

HoursAfter(start, k) == DtAdd(start, Td(k * Hour, 0))

\* start, start + 1h, start + 2h, ...: all those strictly before last
ChecksOf(start, last) ==
    [k \in 1 .. Cardinality({m \in HorizonHours : Lt(HoursAfter(start, m), last)})
        |-> HoursAfter(start, k - 1)]

\* the part of C2 about every call whose get_start_time returned start
MergedElement ==
    LET hunts == HuntsOf(call.curr_time, call.curr_delay, locals.arr)
        checks == ChecksOf(locals.start.value, hunts[Len(hunts)])
    IN  /\ Len(hunts) = call.n + 1
        /\ ret = Value(merge(hunts, checks)[call.n])

\* the scenario of C2: 08:00:00, a delay of 10 minutes, no offset, n = 3 and
\* the delays 1000, 1000, 1000
Scenario ==
    /\ call.n = 3
    /\ call.curr_time = Dt(28800, 0, 0)
    /\ call.curr_delay = Td(600, 0)
    /\ call.offset = Td(0, 0)
    /\ locals.arr = <<1000, 1000, 1000>>

\* C2: for n >= 1 the result is the element at index n - 1 of
\* merge(hunts, checks), checks being start, start + 1h, ... before the last
\* hunt event with start = get_start_time(current_time, offset); in the
\* scenario the result is 08:43:20.
C2_EndTimeIsMergedElement ==
    (EndDone /\ call.n >= 1 /\ locals.start.kind = "value") =>
        /\ MergedElement
        /\ Scenario => ret = Value(Dt(31400, 0, 0))

\* C2 without its scenario: the result is the element at index n - 1 of
\* merge(hunts, checks) in every call
C2_MergedElementOnly ==
    (EndDone /\ call.n >= 1 /\ locals.start.kind = "value") => MergedElement

\* C5: a call with n < 1 raises and returns no timestamp.
C5_RejectsNBelowOne ==
    (EndDone /\ call.n < 1) => ret.kind = "raise"

\* whole seconds from a to b, two times with the same microsecond field
SecondsBetween(a, b) == Utc(b) - Utc(a)

\* C6: for n >= 1 the hunt-event sequence has n + 1 timestamps, starts with
\* current_time + current_delay, is strictly ascending and every gap between
\* neighbours is in [920, 1140) seconds.
C6_HuntEvents ==
    (EndDone /\ call.n >= 1) =>
        LET h == locals.all_times
        IN  /\ Len(h) = call.n + 1
            /\ h[1] = DtAdd(call.curr_time, call.curr_delay)
            /\ \A k \in 1 .. Len(h) - 1 :
                 /\ Lt(h[k], h[k + 1])
                 /\ h[k + 1].us = h[k].us
                 /\ Low <= SecondsBetween(h[k], h[k + 1])
                 /\ SecondsBetween(h[k], h[k + 1]) < High

\* C6's case: three delays, the largest first and the smallest second
C6_Witness ==
    /\ EndDone /\ call.n = 3
    /\ locals.arr = <<High - 1, Low, 1000>>
    /\ Len(locals.all_times) = 4
    /\ call.curr_time.us = 500000

\* an hourly check start + k hours lies strictly before t
CheckBefore(start, t) == \E k \in HorizonHours : Lt(HoursAfter(start, k), t)

====
